---- MODULE Spec2Model ----
(***************************************************************************)
(* Model of calculator.py: the AST-based SafeEvaluator (parse, environment *)
(* builder, tree evaluator) and the part of CalculatorApp that drives it   *)
(* (entry text, angle mode, history list and history navigation).          *)
(*                                                                         *)
(* A source string is modelled by its token sequence, the host parser      *)
(* (ast.parse, mode='eval') by a recursive-descent parser for the Python   *)
(* expression grammar over those tokens, numbers by exact rationals tagged *)
(* with their Python type.  Behaviour of the host is that of CPython 3.8   *)
(* to 3.13 (ast.Num is an alias that matches int, float and complex        *)
(* constants but not bool).                                                *)
(***************************************************************************)
EXTENDS Integers, Sequences, FiniteSets, TLC

VARIABLES
    expression,     \* the source string handed to SafeEvaluator.eval, as tokens
    degree_mode,    \* CalculatorApp.degree_mode, read through is_degrees()
    ops,            \* SafeEvaluator.ops
    outcome,        \* what the last call of SafeEvaluator.eval returned or raised
    first,          \* per angle mode: the outcome of the first call in that mode
    entry,          \* text of the entry widget, as characters
    result_var,     \* text of the result label
    history,        \* CalculatorApp.history (hist_list shows the same items)
    history_index   \* CalculatorApp.history_index: <<>> is None, <<i>> is i

vars == <<expression, degree_mode, ops, outcome, first,
          entry, result_var, history, history_index>>

(***************************************************************************)
(* Bounds                                                                  *)
(***************************************************************************)
\* longest source, in tokens
MaxLen == 5
\* longest text typed into the entry widget, in characters
MaxEntry == 2
\* most items kept in the history
MaxHist == 2
\* the function objects a call of _build_env may be given for one closure
MaxObjects == 2

(***************************************************************************)
(* Tokens of a source string                                               *)
(***************************************************************************)
Tok(k, s, n, d) == [k |-> k, s |-> s, n |-> n, d |-> d]
Op(s) == Tok("op", s, 0, 1)
Name(s) == Tok("name", s, 0, 1)
Kw(s) == Tok("kw", s, 0, 1)
Str(s) == Tok("str", s, 0, 1)
Num(n) == Tok("num", "int", n, 1)
Flt(n, d) == Tok("num", "float", n, d)
Imag(n) == Tok("num", "complex", n, 1)
EOF == Tok("eof", "", 0, 1)

At(toks, i) == IF i >= 1 /\ i <= Len(toks) THEN toks[i] ELSE EOF

(***************************************************************************)
(* Syntax tree nodes (the ast classes _eval inspects)                      *)
(***************************************************************************)
Node(type, op, tok, args) == [type |-> type, op |-> op, tok |-> tok, args |-> args]
NoNode == Node("None", "", EOF, <<>>)
ConstantNode(t) == Node("Constant", "", t, <<>>)
NameNode(id) == Node("Name", id, EOF, <<>>)
BinOpNode(o, l, r) == Node("BinOp", o, EOF, <<l, r>>)
UnaryOpNode(o, x) == Node("UnaryOp", o, EOF, <<x>>)
CallNode(f, as) == Node("Call", "", EOF, <<f>> \o as)
TupleNode(es) == Node("Tuple", "", EOF, es)

BinOpClass(s) ==
    CASE s = "+" -> "Add"
      [] s = "-" -> "Sub"
      [] s = "*" -> "Mult"
      [] s = "/" -> "Div"
      [] s = "//" -> "FloorDiv"
      [] s = "%" -> "Mod"
      [] s = "**" -> "Pow"
      [] s = "^" -> "BitXor"
      [] OTHER -> "?"

UnaryOpClass(s) == IF s = "-" THEN "USub" ELSE "UAdd"

(***************************************************************************)
(* ast.parse(expression, mode='eval'): Python's expression grammar for the *)
(* tokens above.  Precedence, low to high: tuple display (testlist), ^     *)
(* (xor), + - (arith), * / // % (term), unary + - (factor), ** (power),    *)
(* call (primary), atom.                                                   *)
(***************************************************************************)
POk(n, p) == [ok |-> TRUE, node |-> n, pos |-> p]
PFail == [ok |-> FALSE, node |-> NoNode, pos |-> 0]

RECURSIVE SkipStrs(_, _)
SkipStrs(toks, i) == IF At(toks, i).k = "str" THEN SkipStrs(toks, i + 1) ELSE i

\* the binary operators of one precedence level, and the rule of its operands
LevelOps(rule) ==
    CASE rule \in {"xor", "xorrest"} -> {Op("^")}
      [] rule \in {"arith", "arithrest"} -> {Op("+"), Op("-")}
      [] OTHER -> {Op("*"), Op("/"), Op("//"), Op("%")}
Operand(rule) ==
    CASE rule \in {"xor", "xorrest"} -> "arith"
      [] rule \in {"arith", "arithrest"} -> "term"
      [] OTHER -> "factor"
RestOf(rule) ==
    CASE rule = "xor" -> "xorrest"
      [] rule = "arith" -> "arithrest"
      [] OTHER -> "termrest"

RECURSIVE Parse(_, _, _, _)
\* the grammar rule `rule` read from toks[i..]; acc is what the rule continues:
\* the left operand, the callee, or the elements read so far
Parse(rule, toks, i, acc) ==
    LET t == At(toks, i)
        x == Parse("xor", toks, i, NoNode)
        x1 == Parse("xor", toks, i + 1, NoNode)
        o == Parse(Operand(rule), toks, i, NoNode)
        o1 == Parse(Operand(rule), toks, i + 1, NoNode)
        f1 == Parse("factor", toks, i + 1, NoNode)
        pr == Parse("primary", toks, i, NoNode)
        pw == Parse("factor", toks, pr.pos + 1, NoNode)
        at == Parse("atom", toks, i, NoNode)
        args == Parse("arglist", toks, i + 1, TupleNode(<<>>))
        inner == Parse("testlist", toks, i + 1, NoNode)
    IN CASE rule = "testlist" ->
              IF ~x.ok THEN PFail
              ELSE IF At(toks, x.pos) = Op(",")
                   THEN Parse("testrest", toks, x.pos, TupleNode(<<x.node>>))
                   ELSE x
         [] rule = "testrest" ->
              IF t # Op(",") THEN POk(acc, i)
              ELSE IF At(toks, i + 1) \in {Op(")"), EOF} THEN POk(acc, i + 1)
              ELSE IF x1.ok
                   THEN Parse("testrest", toks, x1.pos, TupleNode(Append(acc.args, x1.node)))
                   ELSE PFail
         [] rule \in {"xor", "arith", "term"} ->
              IF o.ok THEN Parse(RestOf(rule), toks, o.pos, o.node) ELSE PFail
         [] rule \in {"xorrest", "arithrest", "termrest"} ->
              IF t \notin LevelOps(rule) THEN POk(acc, i)
              ELSE IF o1.ok
                   THEN Parse(rule, toks, o1.pos, BinOpNode(BinOpClass(t.s), acc, o1.node))
                   ELSE PFail
         [] rule = "factor" ->
              IF t \in {Op("+"), Op("-")}
              THEN IF f1.ok THEN POk(UnaryOpNode(UnaryOpClass(t.s), f1.node), f1.pos)
                   ELSE PFail
              ELSE Parse("power", toks, i, NoNode)
         [] rule = "power" ->
              IF ~pr.ok THEN PFail
              ELSE IF At(toks, pr.pos) = Op("**")
                   THEN IF pw.ok THEN POk(BinOpNode("Pow", pr.node, pw.node), pw.pos)
                        ELSE PFail
                   ELSE pr
         [] rule = "primary" ->
              IF at.ok THEN Parse("callrest", toks, at.pos, at.node) ELSE PFail
         [] rule = "callrest" ->
              IF t # Op("(") THEN POk(acc, i)
              ELSE IF At(toks, i + 1) = Op(")")
                   THEN Parse("callrest", toks, i + 2, CallNode(acc, <<>>))
              ELSE IF args.ok /\ At(toks, args.pos) = Op(")")
                   THEN Parse("callrest", toks, args.pos + 1, CallNode(acc, args.node.args))
                   ELSE PFail
         [] rule = "arglist" ->
              IF ~x.ok THEN PFail
              ELSE IF At(toks, x.pos) = Op(",") /\ At(toks, x.pos + 1) # Op(")")
                   THEN Parse("arglist", toks, x.pos + 1, TupleNode(Append(acc.args, x.node)))
              ELSE POk(TupleNode(Append(acc.args, x.node)),
                       IF At(toks, x.pos) = Op(",") THEN x.pos + 1 ELSE x.pos)
         [] t.k \in {"num", "kw"} -> POk(ConstantNode(t), i + 1)
         [] t.k = "str" -> POk(ConstantNode(t), SkipStrs(toks, i + 1))
         [] t.k = "name" -> POk(NameNode(t.s), i + 1)
         [] t = Op("(") ->
              IF At(toks, i + 1) = Op(")") THEN POk(TupleNode(<<>>), i + 2)
              ELSE IF inner.ok /\ At(toks, inner.pos) = Op(")")
                   THEN POk(inner.node, inner.pos + 1)
                   ELSE PFail
         [] OTHER -> PFail

\* node = ast.parse(expression, mode='eval'); ok = FALSE is SyntaxError
ast_parse(toks) ==
    LET r == Parse("testlist", toks, 1, NoNode) IN
    IF r.ok /\ r.pos = Len(toks) + 1 THEN [ok |-> TRUE, body |-> r.node]
    ELSE [ok |-> FALSE, body |-> NoNode]

(***************************************************************************)
(* Values.  A number is its Python type and an exact rational n/d.  A      *)
(* value that has no exact rational form (pi, sin(1), 2 ** 0.5, a complex  *)
(* number) is symbolic: d = 0, s is the term that produced it and n is its *)
(* sign where that is known (1, -1; 0 when it is not).  The magnitude of a *)
(* symbolic value is not known: it is taken to be nonzero, not to round to *)
(* zero, and, when its sign is unknown, to lie in the domain of log and    *)
(* sqrt.  Floating-point rounding error is not modelled.  A                *)
(* function object is a value too: its name and, for the trig wrappers,    *)
(* the captured is_deg.                                                    *)
(***************************************************************************)
Val(t, n, d, s) == [t |-> t, n |-> n, d |-> d, s |-> s]
None == Val("NoneType", 0, 1, <<>>)

Abs(x) == IF x < 0 THEN -x ELSE x

RECURSIVE GCD(_, _)
GCD(a, b) == IF b = 0 THEN Abs(a) ELSE GCD(b, a % Abs(b))

RECURSIVE Power(_, _)
Power(b, e) == IF e = 0 THEN 1 ELSE b * Power(b, e - 1)

\* floor(x / y), y # 0
Floor(x, y) == IF y > 0 THEN x \div y ELSE (-x) \div (-y)

IntV(n) == Val("int", n, 1, <<>>)
BoolV(b) == Val("bool", IF b THEN 1 ELSE 0, 1, <<>>)
FloatV(n, d) ==
    LET g == GCD(n, d)
        sg == IF d < 0 THEN -1 ELSE 1
    IN Val("float", sg * (n \div g), sg * (d \div g), <<>>)
SymV(t, sign, term) == Val(t, sign, 0, term)
FnV(name, mode) == Val("function", 0, 1, <<name, mode>>)
\* a closure of _build_env: a function object of its own, obj telling which
Closure(name, mode, obj) == Val("function", 0, 1, <<name, mode, ToString(obj)>>)
\* an int when both operands were ints, a float otherwise
Mk(isInt, n, d) == IF isInt THEN IntV(n) ELSE FloatV(n, d)

IsIntLike(v) == v.t \in {"int", "bool"}
IsReal(v) == v.t \in {"int", "bool", "float"}
IsExact(v) == v.d # 0
IsZero(v) == (IsExact(v) /\ v.n = 0) \/ (v.t = "complex" /\ v.s = <<"j", "0">>)
Sign(v) == IF v.n > 0 THEN 1 ELSE IF v.n < 0 THEN -1 ELSE 0
Repr(v) == IF IsExact(v) THEN <<"(", ToString(v.n), "/", ToString(v.d), ")">>
           ELSE <<"(">> \o v.s \o <<")">>

\* value of a numeric literal token
Literal(t) ==
    CASE t.s = "int" -> IntV(t.n)
      [] t.s = "float" -> FloatV(t.n, t.d)
      [] OTHER -> SymV("complex", 0, <<"j", ToString(t.n)>>)

Ret(v) == [ok |-> TRUE, val |-> v, exc |-> "", msg |-> ""]
Raise(exc, msg) == [ok |-> FALSE, val |-> None, exc |-> exc, msg |-> msg]

(***************************************************************************)
(* The functions of the operator module stored in self.ops                 *)
(***************************************************************************)
\* a ** b for exact reals
ExactPow(a, b) ==
    IF b.d = 1
    THEN IF b.n >= 0
         THEN Ret(Mk(IsIntLike(a) /\ IsIntLike(b), Power(a.n, b.n), Power(a.d, b.n)))
         ELSE IF a.n = 0
              THEN Raise("ZeroDivisionError", "0.0 cannot be raised to a negative power")
              ELSE Ret(FloatV(Power(a.d, -b.n), Power(a.n, -b.n)))
    ELSE IF a.n = 0
         THEN IF b.n > 0 THEN Ret(FloatV(0, 1))
              ELSE Raise("ZeroDivisionError", "0.0 cannot be raised to a negative power")
         ELSE IF a.n = a.d THEN Ret(FloatV(1, 1))
         ELSE IF a.n < 0 THEN Ret(SymV("complex", 0, <<"pow">> \o Repr(a) \o Repr(b)))
         ELSE Ret(SymV("float", 1, <<"pow">> \o Repr(a) \o Repr(b)))

\* op.add, op.sub, op.mul, op.truediv, op.floordiv, op.mod, op.pow on exact reals
ExactBin(f, a, b) ==
    LET isInt == IsIntLike(a) /\ IsIntLike(b)
        q == Floor(a.n * b.d, a.d * b.n)
    IN CASE f = "add" -> Ret(Mk(isInt, a.n * b.d + b.n * a.d, a.d * b.d))
         [] f = "sub" -> Ret(Mk(isInt, a.n * b.d - b.n * a.d, a.d * b.d))
         [] f = "mul" -> Ret(Mk(isInt, a.n * b.n, a.d * b.d))
         [] f = "truediv" ->
              IF b.n = 0 THEN Raise("ZeroDivisionError", "division by zero")
              ELSE Ret(FloatV(a.n * b.d, a.d * b.n))
         [] f = "floordiv" ->
              IF b.n = 0 THEN Raise("ZeroDivisionError", "division by zero")
              ELSE Ret(Mk(isInt, q, 1))
         [] f = "mod" ->
              IF b.n = 0 THEN Raise("ZeroDivisionError", "modulo by zero")
              ELSE Ret(Mk(isInt, a.n * b.d - q * b.n * a.d, a.d * b.d))
         [] OTHER -> ExactPow(a, b)

\* the same on operands of which one is symbolic
SymBin(f, a, b) ==
    LET cplx == "complex" \in {a.t, b.t}
        term == <<f>> \o Repr(a) \o Repr(b)
        sb == IF f = "sub" THEN -Sign(b) ELSE Sign(b)
        sign == CASE f \in {"add", "sub"} ->
                       IF IsZero(a) THEN sb
                       ELSE IF IsZero(b) \/ Sign(a) = sb THEN Sign(a) ELSE 0
                  [] f \in {"mul", "truediv"} -> Sign(a) * Sign(b)
                  [] f = "pow" ->
                       IF Sign(a) = 1 THEN 1
                       ELSE IF IsExact(b) /\ b.d = 1 /\ b.n % 2 = 0 THEN 1
                       ELSE IF IsExact(b) /\ b.d = 1 THEN Sign(a) ELSE 0
                  [] OTHER -> 0
        \* a negative base under a fractional exponent gives a complex number
        root == f = "pow" /\ Sign(a) = -1 /\ ~(IsExact(b) /\ b.d = 1)
        isInt == IsIntLike(a) /\ IsIntLike(b) /\ f \in {"add", "sub", "mul", "floordiv", "mod"}
    IN CASE cplx /\ f \in {"floordiv", "mod"} ->
              Raise("TypeError", "unsupported operand type(s)")
         [] f \in {"truediv", "floordiv", "mod"} /\ IsZero(b) ->
              Raise("ZeroDivisionError", "division by zero")
         [] f = "pow" /\ IsZero(a) /\ ~IsZero(b) /\ (b.t = "complex" \/ Sign(b) = -1) ->
              Raise("ZeroDivisionError", "0.0 to a negative or complex power")
         [] cplx -> Ret(SymV("complex", 0, term))
         [] f = "sub" /\ a = b -> Ret(Mk(isInt, 0, 1))
         [] f = "truediv" /\ a = b -> Ret(FloatV(1, 1))
         [] f \in {"mul", "truediv", "floordiv", "mod"} /\ IsZero(a) -> Ret(Mk(isInt, 0, 1))
         [] f = "mul" /\ IsZero(b) -> Ret(Mk(isInt, 0, 1))
         [] f = "pow" /\ IsZero(b) -> Ret(FloatV(1, 1))
         [] f = "pow" /\ IsZero(a) /\ Sign(b) = 1 -> Ret(FloatV(0, 1))
         [] root -> Ret(SymV("complex", 0, term))
         [] OTHER -> Ret(SymV(IF isInt THEN "int" ELSE "float", sign, term))

BinaryOperator(f, a, b) ==
    IF a.t \in {"function", "NoneType"} \/ b.t \in {"function", "NoneType"}
    THEN Raise("TypeError", "unsupported operand type(s)")
    ELSE IF IsExact(a) /\ IsExact(b) THEN ExactBin(f, a, b)
    ELSE SymBin(f, a, b)

\* op.neg, op.pos
UnaryOperator(f, a) ==
    IF a.t \in {"function", "NoneType"}
    THEN Raise("TypeError", "bad operand type for unary operator")
    ELSE IF ~IsExact(a)
         THEN Ret(IF f = "neg" THEN SymV(a.t, -Sign(a), <<"neg">> \o Repr(a)) ELSE a)
    ELSE Ret(Mk(IsIntLike(a), IF f = "neg" THEN -a.n ELSE a.n, a.d))

(***************************************************************************)
(* The callables stored in the environment                                 *)
(***************************************************************************)
RECURSIVE ISqrt(_, _)
\* least r >= k with r * r >= n
ISqrt(n, k) == IF k * k >= n THEN k ELSE ISqrt(n, k + 1)

\* nearest integer to n / d (d > 0), ties to the even one
RoundHalfEven(n, d) ==
    LET q == Floor(n, d)
        r2 == 2 * (n - q * d)
    IN IF r2 < d THEN q
       ELSE IF r2 > d THEN q + 1
       ELSE IF q % 2 = 0 THEN q ELSE q + 1

\* math.sin, math.cos, math.tan behind the degree/radian wrappers
Trig(name, is_deg, x) ==
    LET mode == IF is_deg THEN "deg" ELSE "rad"
        deg == IF IsExact(x) /\ x.d = 1 THEN x.n ELSE 1
    IN CASE IsZero(x) -> Ret(FloatV(IF name = "cos" THEN 1 ELSE 0, 1))
         [] is_deg /\ IsExact(x) /\ name = "sin" /\ deg \in {90, -270} -> Ret(FloatV(1, 1))
         [] is_deg /\ IsExact(x) /\ name = "sin" /\ deg \in {-90, 270} -> Ret(FloatV(-1, 1))
         [] is_deg /\ IsExact(x) /\ name = "cos" /\ deg \in {360, -360} -> Ret(FloatV(1, 1))
         [] is_deg /\ IsExact(x) /\ name = "cos" /\ deg \in {180, -180} -> Ret(FloatV(-1, 1))
         [] OTHER -> Ret(SymV("float", 0, <<name, mode>> \o Repr(x)))

\* bool(v) as an if-condition evaluates it
Truthy(v) == v.t = "function" \/ ~IsZero(v)

\* def _sin(x, is_deg=is_deg), _cos, _tan: is_deg is a parameter whose default
\* is the flag _build_env read; a second positional argument replaces it
TrigWrapper(name, captured, args) ==
    CASE Len(args) \notin {1, 2} -> Raise("TypeError", "takes from 1 to 2 positional arguments")
      [] ~IsReal(args[1]) -> Raise("TypeError", "must be real number")
      [] Len(args) = 2 -> Trig(name, Truthy(args[2]), args[1])
      [] OTHER -> Trig(name, captured, args[1])

\* math.log10, math.log and math.sqrt of one argument
MathFn1(name, x) ==
    LET rn == ISqrt(x.n, 0)
        rd == ISqrt(x.d, 0)
    IN CASE ~IsReal(x) -> Raise("TypeError", "must be real number")
         [] ~IsExact(x) /\ Sign(x) = -1 -> Raise("ValueError", "math domain error")
         [] ~IsExact(x) /\ name = "ln" /\ x.s = <<"e">> -> Ret(FloatV(1, 1))
         [] ~IsExact(x) ->
              Ret(SymV("float", IF name = "sqrt" THEN 1 ELSE 0, <<name>> \o Repr(x)))
         [] name = "sqrt" /\ x.n < 0 -> Raise("ValueError", "math domain error")
         [] name = "sqrt" /\ rn * rn = x.n /\ rd * rd = x.d -> Ret(FloatV(rn, rd))
         [] name = "sqrt" -> Ret(SymV("float", 1, <<name>> \o Repr(x)))
         [] x.n <= 0 -> Raise("ValueError", "math domain error")
         [] x.n = x.d -> Ret(FloatV(0, 1))
         [] name = "log" /\ x.d = 1 /\ x.n \in {10, 100, 1000} ->
              Ret(FloatV(CASE x.n = 10 -> 1 [] x.n = 100 -> 2 [] OTHER -> 3, 1))
         [] OTHER -> Ret(SymV("float", IF x.n > x.d THEN 1 ELSE -1, <<name>> \o Repr(x)))

\* math.log10(x), math.sqrt(x), math.log(x[, base]) = log(x) / log(base)
MathFn(name, args) ==
    LET num == MathFn1(name, args[1])
        den == MathFn1(name, args[2])
    IN CASE Len(args) = 1 -> num
         [] name = "ln" /\ Len(args) = 2 ->
              IF ~IsReal(args[1]) \/ ~IsReal(args[2])
              THEN Raise("TypeError", "must be real number")
              ELSE IF ~num.ok THEN num
              ELSE IF ~den.ok THEN den
              ELSE BinaryOperator("truediv", num.val, den.val)
         [] OTHER -> Raise("TypeError", "wrong number of arguments")

\* the builtin round
Round(args) ==
    LET x == args[1]
        nd == IF Len(args) = 2 THEN args[2].n ELSE 0
        p == Power(10, Abs(nd))
    IN CASE Len(args) > 2 -> Raise("TypeError", "round() takes at most 2 arguments")
         [] ~IsReal(x) -> Raise("TypeError", "type doesn't define __round__ method")
         [] Len(args) = 2 /\ ~(IsIntLike(args[2]) /\ IsExact(args[2])) ->
              Raise("TypeError", "object cannot be interpreted as an integer")
         [] ~IsExact(x) ->
              Ret(SymV(IF Len(args) = 1 THEN "int" ELSE x.t, 0, <<"round">> \o Repr(x)))
         [] Len(args) = 1 -> Ret(IntV(RoundHalfEven(x.n, x.d)))
         [] IsIntLike(x) ->
              Ret(IntV(IF nd >= 0 THEN x.n ELSE RoundHalfEven(x.n, p) * p))
         [] nd >= 0 -> Ret(FloatV(RoundHalfEven(x.n * p, x.d), p))
         [] OTHER -> Ret(FloatV(RoundHalfEven(x.n, x.d * p) * p, 1))

\* fn(*args): fn is whatever the environment holds under the callee's name
Apply(fn, args) ==
    LET name == fn.s[1] IN
    CASE fn.t # "function" -> Raise("TypeError", "object is not callable")
      [] name = "round" -> Round(args)
      [] name \in {"sin", "cos", "tan"} -> TrigWrapper(name, fn.s[2] = "deg", args)
      [] name \in {"log", "ln", "sqrt"} -> MathFn(name, args)
      [] Len(args) # 1 -> Raise("TypeError", "abs() takes exactly one argument")
      [] args[1].t \in {"function", "NoneType"} ->
           Raise("TypeError", "bad operand type for abs()")
      [] ~IsExact(args[1]) ->
           Ret(SymV(IF args[1].t = "complex" THEN "float" ELSE args[1].t, 1,
                    <<"abs">> \o Repr(args[1])))
      [] OTHER -> Ret(Mk(IsIntLike(args[1]), Abs(args[1].n), args[1].d))

(***************************************************************************)
(* SafeEvaluator                                                           *)
(***************************************************************************)
\* self.ops as built by __init__: ast operator class -> operator function
OpsTable ==
    [c \in {"Add", "Sub", "Mult", "Div", "Mod", "Pow", "FloorDiv", "USub", "UAdd"} |->
        CASE c = "Add" -> "add"
          [] c = "Sub" -> "sub"
          [] c = "Mult" -> "mul"
          [] c = "Div" -> "truediv"
          [] c = "Mod" -> "mod"
          [] c = "Pow" -> "pow"
          [] c = "FloorDiv" -> "floordiv"
          [] c = "USub" -> "neg"
          [] OTHER -> "pos"]

\* _sin, _cos and _tan are function objects made by this call (obj); the other
\* callables are the same objects in every environment
_build_env(is_deg, obj) ==
    LET mode == IF is_deg THEN "deg" ELSE "rad" IN
    [id \in {"sin", "cos", "tan", "log", "ln", "sqrt", "abs", "round", "pi", "e"} |->
        CASE id \in {"sin", "cos", "tan"} -> Closure(id, mode, obj)
          [] id \in {"pi", "e"} -> SymV("float", 1, <<id>>)
          [] OTHER -> FnV(id, "")]

\* result of _eval: a returned value or a raised exception, and the nodes
\* _eval was entered on, in order
EvRet(v, tr) == [ok |-> TRUE, val |-> v, exc |-> "", msg |-> "", trace |-> tr]
EvRaise(exc, msg, tr) == [ok |-> FALSE, val |-> None, exc |-> exc, msg |-> msg, trace |-> tr]
EvOf(r, tr) == [ok |-> r.ok, val |-> r.val, exc |-> r.exc, msg |-> r.msg, trace |-> tr]

RECURSIVE _eval(_, _, _), EvalArgs(_, _, _, _, _)

\* [self._eval(a, env) for a in node.args], from index i on
EvalArgs(as, i, env, optab, acc) ==
    IF i > Len(as) THEN [ok |-> TRUE, vals |-> acc.vals, fail |-> EvRet(None, <<>>), trace |-> acc.trace]
    ELSE LET r == _eval(as[i], env, optab) IN
         IF r.ok
         THEN EvalArgs(as, i + 1, env, optab,
                       [vals |-> Append(acc.vals, r.val), trace |-> acc.trace \o r.trace])
         ELSE [ok |-> FALSE, vals |-> acc.vals, fail |-> r, trace |-> acc.trace \o r.trace]

\* EvalBinOp evaluating the right operand before the left one
EvalBinOpRightFirst(node, env, optab) ==
    LET r == _eval(node.args[2], env, optab) IN
    IF ~r.ok THEN EvOf(r, <<node>> \o r.trace)
    ELSE LET l == _eval(node.args[1], env, optab) IN
         IF ~l.ok THEN EvOf(l, <<node>> \o r.trace \o l.trace)
         ELSE EvOf(BinaryOperator(optab[node.op], l.val, r.val),
                   <<node>> \o r.trace \o l.trace)

\* self.ops[type(node.op)](self._eval(node.left, env), self._eval(node.right, env))
EvalBinOp(node, env, optab) ==
    LET l == _eval(node.args[1], env, optab) IN
    IF ~l.ok THEN EvOf(l, <<node>> \o l.trace)
    ELSE LET r == _eval(node.args[2], env, optab) IN
         IF ~r.ok THEN EvOf(r, <<node>> \o l.trace \o r.trace)
         ELSE EvOf(BinaryOperator(optab[node.op], l.val, r.val),
                   <<node>> \o l.trace \o r.trace)

\* the ast.Call branch
EvalCall(node, env, optab) ==
    IF node.args[1].type # "Name" \/ node.args[1].op \notin DOMAIN env
    THEN EvRaise("ValueError", "Function not allowed", <<node>>)
    ELSE LET fn == env[node.args[1].op]
             a == EvalArgs(Tail(node.args), 1, env, optab, [vals |-> <<>>, trace |-> <<>>])
         IN IF ~a.ok THEN EvOf(a.fail, <<node>> \o a.trace)
            ELSE IF Len(a.vals) = 0
                 THEN EvRaise("ValueError", "Function needs arguments", <<node>>)
            ELSE EvOf(Apply(fn, a.vals), <<node>> \o a.trace)

_eval(node, env, optab) ==
    CASE node.type = "Constant" /\ node.tok.k = "num" ->
           EvRet(Literal(node.tok), <<node>>)
      [] node.type = "Constant" /\ node.tok.k = "kw" /\ node.tok.s \in {"True", "False"} ->
           EvRet(BoolV(node.tok.s = "True"), <<node>>)
      [] node.type = "Constant" ->
           EvRaise("ValueError", "Constants other than numbers not allowed", <<node>>)
      [] node.type = "BinOp" ->
           IF node.op \notin DOMAIN optab
           THEN EvRaise("ValueError", "Operator not allowed", <<node>>)
           ELSE EvalBinOp(node, env, optab)
      [] node.type = "UnaryOp" ->
           IF node.op \notin DOMAIN optab
           THEN EvRaise("ValueError", "Unary operator not allowed", <<node>>)
           ELSE LET x == _eval(node.args[1], env, optab) IN
                IF ~x.ok THEN EvOf(x, <<node>> \o x.trace)
                ELSE EvOf(UnaryOperator(optab[node.op], x.val), <<node>> \o x.trace)
      [] node.type = "Name" ->
           IF node.op \in DOMAIN env THEN EvRet(env[node.op], <<node>>)
           ELSE EvRaise("ValueError", "Unknown name", <<node>>)
      [] node.type = "Call" -> EvalCall(node, env, optab)
      [] OTHER -> EvRaise("ValueError", "Unsupported syntax", <<node>>)

\* what SafeEvaluator.eval hands its caller: the value returned, or the
\* exception raised (exc, msg) and the exception it was raised from (cause)
Outcome(ok, v, exc, msg, cause, cmsg, tr) ==
    [ok |-> ok, val |-> v, exc |-> exc, msg |-> msg, cause |-> cause, cmsg |-> cmsg, trace |-> tr]
NoOutcome == Outcome(FALSE, None, "", "", "", "", <<>>)

eval(src, optab, is_deg, obj) ==
    LET node == ast_parse(src) IN
    IF ~node.ok
    THEN Outcome(FALSE, None, "ValueError", "Invalid expression", "SyntaxError", "invalid syntax", <<>>)
    ELSE LET r == _eval(node.body, _build_env(is_deg, obj), optab) IN
         IF r.ok THEN Outcome(TRUE, r.val, "", "", "", "", r.trace)
         ELSE IF r.exc = "ZeroDivisionError"
              THEN Outcome(FALSE, None, r.exc, r.msg, "", "", r.trace)
         ELSE Outcome(FALSE, None, "ValueError", "Invalid expression", r.exc, r.msg, r.trace)

(***************************************************************************)
(* The evaluator under its caller: one source, evaluated any number of     *)
(* times while the caller flips the angle mode.                            *)
(***************************************************************************)
\* every source of at most n tokens over the alphabet A
Sources(A, n) == UNION {[1..k -> A] : k \in 0..n}

Objects == 1..MaxObjects
NoFirst == [m \in BOOLEAN |-> NoOutcome]

\* result = self.evaluator.eval(expr), is_degrees being lambda: self.degree_mode
SafeEvaluator_eval ==
    /\ \E obj \in Objects : outcome' = eval(expression, ops, degree_mode, obj)
    /\ first' = IF first[degree_mode] = NoOutcome
                THEN [first EXCEPT ![degree_mode] = outcome']
                ELSE first
    /\ UNCHANGED <<expression, degree_mode, ops, entry, result_var, history, history_index>>

toggle_degree_mode ==
    /\ degree_mode' = ~degree_mode
    /\ UNCHANGED <<expression, ops, outcome, first, entry, result_var, history, history_index>>

\* CalculatorApp.__init__ and SafeEvaluator.__init__, with the source to evaluate
InitOver(srcs) ==
    /\ expression \in srcs
    /\ degree_mode = TRUE
    /\ ops = OpsTable
    /\ outcome = NoOutcome
    /\ first = NoFirst
    /\ entry = <<>>
    /\ result_var = <<>>
    /\ history = <<>>
    /\ history_index = <<>>

NextEval == SafeEvaluator_eval \/ toggle_degree_mode

\* the sources of S that parse, and the shortest of those that do not: a source
\* that does not parse fails in ast.parse, whatever its tokens are
Parsing(S) == {src \in S : Len(src) <= 2 \/ ast_parse(src).ok}

\* the sources of at most n tokens over A that parse
Expressions(A, n) == {src \in Sources(A, n) : ast_parse(src).ok}

\* calls sin(x, y) with every expression x and y of at most n tokens over A
CallSources(A, n) ==
    {<<Name("sin"), Op("(")>> \o x \o <<Op(",")>> \o y \o <<Op(")")>> :
        x \in Expressions(A, n), y \in Expressions(A, n)}

\* arithmetic over operands that fail in different ways, alone and as arguments
ArithTokens == {Num(1), Num(0), Name("foo"), Op("+"), Op("/")}
ArgTokens == {Num(0), Name("foo"), Op("/")}
Init == InitOver(Parsing(Sources(ArithTokens, MaxLen)) \cup CallSources(ArgTokens, MaxLen - 2))
Spec == Init /\ [][NextEval]_vars

\* division, floor division and modulo of numbers and of a function name
DivTokens == {Num(1), Num(0), Name("sin"), Op("/"), Op("//"), Op("%")}
InitDiv == InitOver(Sources(DivTokens, MaxLen))
SpecDiv == InitDiv /\ [][NextEval]_vars

\* numbers among string and boolean literals
LitTokens == {Num(1), Num(0), Op("/"), Op("+"), Str("a"), Kw("True")}
InitLit == InitOver(Sources(LitTokens, MaxLen))
SpecLit == InitLit /\ [][NextEval]_vars

\* calls of a function, of a constant and of an unknown name
CallTokens == {Name("sin"), Name("pi"), Name("foo"), Op("("), Op(")"), Op(","), Num(1), Num(0)}
InitCall == InitOver(Sources(CallTokens, MaxLen) \cup CallSources({Num(1), Num(0)}, 1))
SpecCall == InitCall /\ [][NextEval]_vars

\* the two spellings of exponentiation
PowTokens == {Num(2), Num(1), Op("^"), Op("**"), Op("-")}
InitPow == InitOver(Sources(PowTokens, MaxLen))
SpecPow == InitPow /\ [][NextEval]_vars

(***************************************************************************)
(* CalculatorApp: the entry text, its tokens, and the rendering of results *)
(***************************************************************************)
Digit == {"0", "1", "2", "3", "4", "5", "6", "7", "8", "9"}
DigitVal(c) == CHOOSE v \in 0..9 : ToString(v) = c
ErrorTok == Tok("error", "", 0, 1)

CharAt(cs, i) == IF i >= 1 /\ i <= Len(cs) THEN cs[i] ELSE ""

RECURSIVE ScanDigits(_, _, _, _)
\* the run of digits of cs from i on: its value, its length and where it ends
ScanDigits(cs, i, val, cnt) ==
    IF CharAt(cs, i) \in Digit
    THEN ScanDigits(cs, i + 1, 10 * val + DigitVal(cs[i]), cnt + 1)
    ELSE [val |-> val, cnt |-> cnt, pos |-> i]

RECURSIVE Lex(_, _)
\* the tokens ast.parse reads from the characters cs[i..]; a text that is no
\* token gives ErrorTok, on which the parser fails
Lex(cs, i) ==
    LET c == CharAt(cs, i)
        ip == ScanDigits(cs, i, 0, 0)
        fp == ScanDigits(cs, ip.pos + 1, 0, 0)
    IN CASE i > Len(cs) -> <<>>
         [] c = " " -> Lex(cs, i + 1)
         [] c \in Digit \/ c = "." ->
              IF CharAt(cs, ip.pos) = "."
              THEN IF ip.cnt + fp.cnt = 0 THEN <<ErrorTok>>
                   ELSE <<Flt(ip.val * Power(10, fp.cnt) + fp.val, Power(10, fp.cnt))>>
                        \o Lex(cs, fp.pos)
              ELSE IF ip.cnt > 1 /\ cs[i] = "0" /\ ip.val # 0 THEN <<ErrorTok>>
              ELSE <<Num(ip.val)>> \o Lex(cs, ip.pos)
         [] c \in {"*", "/"} ->
              IF CharAt(cs, i + 1) = c
              THEN <<Op(IF c = "*" THEN "**" ELSE "//")>> \o Lex(cs, i + 2)
              ELSE <<Op(c)>> \o Lex(cs, i + 1)
         [] c \in {"+", "-", "%", "^", "(", ")"} -> <<Op(c)>> \o Lex(cs, i + 1)
         [] OTHER -> <<ErrorTok>>

RECURSIVE Digits(_)
\* str(n) for n >= 0
Digits(n) == IF n < 10 THEN <<ToString(n)>> ELSE Append(Digits(n \div 10), ToString(n % 10))

RECURSIVE FracDigits(_, _)
\* the k digits of m after the decimal point, without trailing zeros
FracDigits(m, k) ==
    IF m = 0 THEN <<>>
    ELSE <<ToString(m \div Power(10, k - 1))>> \o FracDigits(m % Power(10, k - 1), k - 1)

\* format_number: str(int(x)) for an int or an integral float, f"{x:.12g}"
\* otherwise.  The :.12g text is spelled out for a float with at most nine
\* decimals and no exponent; any other rendering is the one character "?",
\* which is no token.
format_number(x) ==
    LET sign == IF x.n < 0 THEN <<"-">> ELSE <<>>
        ks == {k \in 1..9 : Power(10, k) % x.d = 0}
        k == CHOOSE j \in ks : \A l \in ks : j <= l
        m == (Abs(x.n) * Power(10, k)) \div x.d
    IN CASE IsReal(x) /\ IsExact(x) /\ x.d = 1 -> sign \o Digits(Abs(x.n))
         [] IsReal(x) /\ IsExact(x) /\ ks # {} /\ Abs(x.n) * 10000 >= x.d ->
              sign \o Digits(m \div Power(10, k)) \o <<".">> \o FracDigits(m % Power(10, k), k)
         [] OTHER -> <<"?">>

RECURSIVE LStrip(_)
LStrip(cs) == IF cs # <<>> /\ Head(cs) = " " THEN LStrip(Tail(cs)) ELSE cs
RECURSIVE RStrip(_)
RStrip(cs) == IF cs # <<>> /\ cs[Len(cs)] = " " THEN RStrip(SubSeq(cs, 1, Len(cs) - 1)) ELSE cs
\* str.strip()
Strip(cs) == RStrip(LStrip(cs))

\* the characters on_key lets through that the model types
Keys == {"1", "-"}

\* "expr = result", kept as its two parts; item.split("=")[0].strip() is expr
Item(expr, res) == [expr |-> expr, res |-> res]

insert_text(txt) ==
    /\ Len(entry) < MaxEntry
    /\ entry' = Append(entry, txt)
    /\ result_var' = <<>>
    /\ UNCHANGED <<expression, degree_mode, ops, outcome, first, history, history_index>>

backspace ==
    /\ entry' = IF entry # <<>> THEN SubSeq(entry, 1, Len(entry) - 1) ELSE entry
    /\ UNCHANGED <<expression, degree_mode, ops, outcome, first, result_var, history, history_index>>

clear ==
    /\ entry' = <<>>
    /\ result_var' = <<>>
    /\ history_index' = <<>>
    /\ UNCHANGED <<expression, degree_mode, ops, outcome, first, history>>

\* self.history.append(item); the listbox gets the same item
_add_history(item) == history' = Append(history, item)

equals ==
    \E obj \in Objects :
    LET expr == Strip(entry)
        result == eval(Lex(expr, 1), ops, degree_mode, obj)
    IN /\ UNCHANGED <<expression, degree_mode, ops, outcome, first>>
       /\ IF expr = <<>> \/ ~result.ok
          THEN UNCHANGED <<entry, result_var, history, history_index>>
          ELSE /\ Len(history) < MaxHist
               /\ result_var' = format_number(result.val)
               /\ _add_history(Item(expr, format_number(result.val)))
               /\ entry' = format_number(result.val)
               /\ history_index' = <<>>

on_history_select(sel) ==
    /\ entry' = history[sel + 1].expr
    /\ result_var' = <<>>
    /\ UNCHANGED <<expression, degree_mode, ops, outcome, first, history, history_index>>

\* clear_history leaving history_index as it is
ClearHistoryKeepingIndex ==
    /\ history' = <<>>
    /\ UNCHANGED <<expression, degree_mode, ops, outcome, first, entry, result_var, history_index>>

clear_history ==
    /\ history' = <<>>
    /\ history_index' = <<>>
    /\ UNCHANGED <<expression, degree_mode, ops, outcome, first, entry, result_var>>

\* the effect of _load_history_index once history_index is idx
_load_history_index(idx) ==
    IF idx = <<>> THEN UNCHANGED <<entry, result_var>>
    ELSE /\ entry' = history[idx[1] + 1].expr
         /\ result_var' = <<>>

Max(a, b) == IF a >= b THEN a ELSE b
Min(a, b) == IF a <= b THEN a ELSE b

\* the index history_prev moves to
PrevIndex(idx, n) == IF idx = <<>> THEN <<n - 1>> ELSE <<Max(0, idx[1] - 1)>>

history_prev ==
    /\ UNCHANGED <<expression, degree_mode, ops, outcome, first, history>>
    /\ IF history = <<>>
       THEN UNCHANGED <<entry, result_var, history_index>>
       ELSE /\ history_index' = PrevIndex(history_index, Len(history))
            /\ _load_history_index(history_index')

\* the index history_next moves to from idx, which is not None
NextIndex(idx, n) == <<Min(n - 1, idx[1] + 1)>>

history_next ==
    /\ UNCHANGED <<expression, degree_mode, ops, outcome, first, history>>
    /\ IF history = <<>> \/ history_index = <<>>
       THEN UNCHANGED <<entry, result_var, history_index>>
       ELSE /\ history_index' = NextIndex(history_index, Len(history))
            /\ _load_history_index(history_index')

InitUI == InitOver({<<>>})

NextUI ==
    \/ \E txt \in Keys : insert_text(txt)
    \/ backspace
    \/ clear
    \/ equals
    \/ \E sel \in 0..(Len(history) - 1) : on_history_select(sel)
    \/ clear_history
    \/ history_prev
    \/ history_next

SpecUI == InitUI /\ [][NextUI]_vars

(***************************************************************************)
(* Properties                                                              *)
(***************************************************************************)
Tree == ast_parse(expression)
Root == Tree.body
\* an environment of the current mode
Env == _build_env(degree_mode, 1)
Evaluated == outcome # NoOutcome

RECURSIVE SubNodes(_)
\* the node n and every node below it
SubNodes(n) == {n} \cup UNION {SubNodes(n.args[i]) : i \in 1..Len(n.args)}

\* the nodes the last call of eval entered
Reached == {outcome.trace[i] : i \in 1..Len(outcome.trace)}

IsDivision(n) == n.type = "BinOp" /\ n.op \in {"Div", "FloorDiv", "Mod"}

\* a division whose left operand evaluates and whose right operand evaluates to zero
DividesByZero(n) ==
    /\ IsDivision(n)
    /\ _eval(n.args[1], Env, ops).ok
    /\ _eval(n.args[2], Env, ops).ok
    /\ _eval(n.args[2], Env, ops).val.t \in {"int", "bool", "float", "complex"}
    /\ IsZero(_eval(n.args[2], Env, ops).val)

\* C1: whenever eval reaches a division, floor division or modulo whose left
\* operand evaluates successfully and whose right operand evaluates to zero, it
\* fails with ZeroDivisionError, not with the generic ValueError
C1_DivisionByZero ==
    Evaluated /\ (\E n \in Reached : DividesByZero(n))
        => ~outcome.ok /\ outcome.exc = "ZeroDivisionError"

\* C2: eval returns a number (an int or a float) or raises; it never returns a
\* boolean, a function object or any other non-numeric value
C2_NumericResult == Evaluated /\ outcome.ok => outcome.val.t \in {"int", "float"}

\* the node shapes the language allows
Whitelisted(n) ==
    \/ n.type = "Constant" /\ n.tok.k = "num" /\ n.tok.s \in {"int", "float"}
    \/ n.type = "BinOp" /\ n.op \in {"Add", "Sub", "Mult", "Div", "Mod", "Pow", "FloorDiv"}
    \/ n.type = "UnaryOp" /\ n.op \in {"USub", "UAdd"}
    \/ n.type = "Name"
    \/ n.type = "Call" /\ n.args[1].type = "Name"

\* C3: a source whose tree holds a node outside the whitelist is rejected with the
\* invalid-expression failure: no value is returned and no other failure is raised
C3_WhitelistRejects ==
    Evaluated /\ Tree.ok /\ (\E n \in SubNodes(Root) : ~Whitelisted(n))
        => ~outcome.ok /\ outcome.exc = "ValueError"

\* the callee of the call n is a name the environment binds to a function
CalleeIsFunction(n) ==
    /\ n.args[1].type = "Name"
    /\ n.args[1].op \in DOMAIN Env
    /\ Env[n.args[1].op].t = "function"

\* C4: a call whose callee is not a name bound to a function (a constant such as pi
\* included) fails with "Function not allowed", and a call of a function with no
\* argument fails with "Function needs arguments"
C4_CallChecks ==
    Evaluated /\ Tree.ok /\ Root.type = "Call" =>
        /\ ~CalleeIsFunction(Root) => ~outcome.ok /\ outcome.cmsg = "Function not allowed"
        /\ CalleeIsFunction(Root) /\ Len(Root.args) = 1 =>
               ~outcome.ok /\ outcome.cmsg = "Function needs arguments"

\* the failure is one of the classified kinds: a syntax or whitelist violation, an
\* unknown name, a disallowed or argument-less call, an operator that is not allowed
Classified(o) ==
    \/ o.cause = "SyntaxError"
    \/ o.cmsg \in {"Unsupported syntax", "Constants other than numbers not allowed",
                   "Unknown name", "Function not allowed", "Function needs arguments",
                   "Operator not allowed", "Unary operator not allowed"}

\* C5: a classified failure reaches the caller as a kind of its own; the catch-all
\* ValueError("Invalid expression") is raised only for what is not classified
C5_DistinctKinds ==
    Evaluated /\ ~outcome.ok /\ Classified(outcome)
        => ~(outcome.exc = "ValueError" /\ outcome.msg = "Invalid expression")

IsTrigCall(n) == n.type = "Call" /\ n.args[1].type = "Name" /\ n.args[1].op \in {"sin", "cos", "tan"}

\* C6: the outcome of a source with no call of sin, cos or tan is the same in both
\* angle modes, and a call of sin, cos or tan computes in the mode the flag had
\* when eval was called
C6_AngleModeOnlyTrig ==
    /\ first[TRUE] # NoOutcome /\ first[FALSE] # NoOutcome /\ Tree.ok
         /\ (\A n \in SubNodes(Root) : ~IsTrigCall(n))
         => first[TRUE] = first[FALSE]
    /\ \A m \in BOOLEAN :
         first[m].ok /\ Tree.ok /\ IsTrigCall(Root)
         => first[m].val = Trig(Root.args[1].op, m, _eval(Root.args[2], _build_env(m, 1), ops).val).val

\* the source with every ^ spelled **
CaretAsPow(src) == [i \in 1..Len(src) |-> IF src[i] = Op("^") THEN Op("**") ELSE src[i]]
Observed(o) == <<o.ok, o.val, o.exc, o.msg>>

\* C7: a source written with ^ evaluates as the same source written with **
C7_CaretIsPow ==
    \A m \in BOOLEAN :
        first[m] # NoOutcome
        => \E obj \in Objects :
               Observed(first[m]) = Observed(eval(CaretAsPow(expression), ops, m, obj))

\* C8: a call of eval changes neither the operator table nor the angle mode nor
\* any other state, the operator table stays the one __init__ built, and a
\* repeated call with the same source and mode has the outcome of the first
C8_PureRepeatable ==
    /\ [](ops = OpsTable)
    /\ [][SafeEvaluator_eval =>
            /\ UNCHANGED <<expression, degree_mode, ops, entry, result_var, history, history_index>>
            /\ first[degree_mode] # NoOutcome => outcome' = first[degree_mode]]_vars

\* how eval reports the failure r of _eval
Reported(r) ==
    IF r.exc = "ZeroDivisionError" THEN <<r.exc, r.msg, "", "">>
    ELSE <<"ValueError", "Invalid expression", r.exc, r.msg>>

SameFailure(w, r) == ~w.ok /\ w.exc = r.exc /\ w.msg = r.msg

\* the operands of the binary node n are evaluated left then right, and the first
\* of them to fail ends the evaluation of n with its failure
BinOpOrder(n) ==
    LET l == _eval(n.args[1], Env, ops)
        r == _eval(n.args[2], Env, ops)
        w == _eval(n, Env, ops)
    IN /\ ~l.ok => SameFailure(w, l) /\ w.trace = <<n>> \o l.trace
       /\ l.ok => w.trace = <<n>> \o l.trace \o r.trace
       /\ l.ok /\ r.ok => w = EvOf(BinaryOperator(ops[n.op], l.val, r.val), w.trace)
       /\ l.ok /\ ~r.ok => SameFailure(w, r)

RECURSIVE ArgTraces(_, _)
\* the nodes entered by evaluating the first k of the arguments as, in order
ArgTraces(as, k) ==
    IF k = 0 THEN <<>> ELSE ArgTraces(as, k - 1) \o _eval(as[k], Env, ops).trace

\* the arguments of the call n are evaluated left to right, and the first of them
\* to fail ends the evaluation of n with its failure
CallOrder(n) ==
    LET as == Tail(n.args)
        w == _eval(n, Env, ops)
        failing == {i \in 1..Len(as) : ~_eval(as[i], Env, ops).ok}
    IN /\ \A i \in failing :
            (\A j \in failing : i <= j)
            => SameFailure(w, _eval(as[i], Env, ops)) /\ w.trace = <<n>> \o ArgTraces(as, i)
       /\ failing = {} => w.trace = <<n>> \o ArgTraces(as, Len(as))

\* C9: in every binary node the left operand is evaluated before the right one and
\* in every call the arguments left to right; nothing to the right of a failing
\* sub-expression is evaluated, and eval reports the leftmost failure
C9_LeftToRight ==
    Evaluated /\ Tree.ok =>
        /\ \A n \in SubNodes(Root) :
              /\ n.type = "BinOp" /\ n.op \in DOMAIN ops => BinOpOrder(n)
              /\ n.type = "Call" /\ n.args[1].type = "Name" /\ n.args[1].op \in DOMAIN Env
                    => CallOrder(n)
        /\ outcome.trace = _eval(Root, Env, ops).trace
        /\ Root.type = "BinOp" /\ Root.op \in DOMAIN ops /\ ~_eval(Root.args[1], Env, ops).ok
              => <<outcome.exc, outcome.msg, outcome.cause, outcome.cmsg>>
                     = Reported(_eval(Root.args[1], Env, ops))

\* both operands of the root fail, each in its own way
C9_Witness ==
    /\ Evaluated /\ Tree.ok
    /\ Root.type = "BinOp" /\ Root.op \in DOMAIN ops
    /\ ~_eval(Root.args[1], Env, ops).ok
    /\ ~_eval(Root.args[2], Env, ops).ok
    /\ _eval(Root.args[1], Env, ops).exc # _eval(Root.args[2], Env, ops).exc

IndexInRange ==
    history_index = <<>> \/ (0 <= history_index[1] /\ history_index[1] < Len(history))

\* C10: history_index is None or an index of the history; history_prev stops at 0,
\* history_next stops at the last item and does nothing while history_index is None
C10_HistoryIndex ==
    /\ []IndexInRange
    /\ [][history_prev /\ history_index = <<0>> => history_index' = <<0>>]_vars
    /\ [][history_next /\ history_index = <<Len(history) - 1>>
            => history_index' = history_index]_vars
    /\ [][history_next /\ history_index = <<>> => UNCHANGED vars]_vars

C10_Witness == Len(history) = 2 /\ history_index = <<0>> /\ entry = history[1].expr

====
